---- MODULE Spec2Model ----
(***************************************************************************)
(* Model of the weather plugin (src/python/weather/app.py): one invocation *)
(* of WitWorld.check_weather at a time, stepped statement by statement     *)
(* through check_weather, get_weather and make_http_request.  The host     *)
(* (environment, outgoing HTTP handler, pollable, body stream) is the      *)
(* nondeterministic part: every answer the host can give is drawn with \E  *)
(* at the statement that asks for it.                                      *)
(*                                                                         *)
(* The sandbox plugin (src/python/python-sandbox/app.py) is modelled next  *)
(* to it: eval and exec, stepped the same way, on an instance of its own.  *)
(*                                                                         *)
(* Text that the code only copies is a TLA+ string.  Text the code looks   *)
(* into (the unit, the location) is a sequence of character codes, so that *)
(* str.lower() and urllib.parse.quote() are computed, not assumed.         *)
(***************************************************************************)
EXTENDS Integers, Sequences, FiniteSets, TLC

VARIABLES
    pc,             \* position of the one thread of control
    location,       \* argument of check_weather (character codes)
    unit,           \* argument of check_weather (character codes)
    env,            \* what environment.get_environment() returns at this call
    api_key,        \* check_weather's local api_key (an option)
    unit_enum,      \* WeatherParams.unit, the Unit member's value
    request_url,    \* get_weather's request_url, by its parts
    request,        \* the OutgoingRequest built by make_http_request
    result,         \* what response.get() returned
    status,         \* make_http_request's local status (an option, as a set)
    chunks,         \* make_http_request's list of chunks
    body,           \* get_weather's body, the bytes make_http_request returned
    weather_data,   \* get_weather's weather_data, the parsed payload
    weather,        \* the WeatherResponse (an option, as a set)
    exc,            \* the exception in flight
    out,            \* the JSON object check_weather returns, before json.dumps
    stream_bytes,   \* host: the bytes the body stream holds
    stream_pos,     \* host: how many of them it has handed out
    stream_end,     \* host: "open", or how the stream ended: "eof" / "error"
    held,           \* host: handles this invocation obtained and has not dropped
    ops,            \* host: how often each transport operation was called
    sb_pc,          \* sandbox: where its eval or exec stands
    sb_arg,         \* sandbox: the method called and its expression or statements
    sb_result,      \* sandbox: eval's local result
    sb_buffer,      \* sandbox: the text in exec's buffer
    sb_exc,         \* sandbox: the exception caught
    sb_out          \* sandbox: what the method returned, or the Err it raised

\* The state of the weather plugin and that of the sandbox plugin.
wvars == << pc, location, unit, env, api_key, unit_enum, request_url, request,
            result, status, chunks, body, weather_data, weather, exc, out,
            stream_bytes, stream_pos, stream_end, held, ops >>

sbvars == << sb_pc, sb_arg, sb_result, sb_buffer, sb_exc, sb_out >>

vars == << wvars, sbvars >>

----------------------------------------------------------------------------
(* Bounds of the model.                                                    *)

\* The body stream hands out at most this many non-empty chunks per response.
MaxChunks == 2

----------------------------------------------------------------------------
(* Program constants.                                                      *)

OPENWEATHER_ENDPOINT == "api.openweathermap.org"

TIMEOUT_SECS == 10

\* The len argument of every body_stream.blocking_read call.
ReadSize == 8192

API_KEY_NAME == "OPENWEATHER_API_KEY"

USER_AGENT == "Mozilla/5.0 (compatible; noorle/1.0)"

\* Unit.METRIC.value and Unit.IMPERIAL.value.
METRIC == "metric"

IMPERIAL == "imperial"

\* The characters of the literal "imperial" that check_weather compares with.
ImperialChars == << 105, 109, 112, 101, 114, 105, 97, 108 >>

\* The characters of "metric".
MetricChars == << 109, 101, 116, 114, 105, 99 >>

\* The characters of a unit value.
UnitChars(v) == IF v = "imperial" THEN ImperialChars ELSE MetricChars

\* The characters of OPENWEATHER_ENDPOINT.
EndpointChars ==
    << 97, 112, 105, 46, 111, 112, 101, 110, 119, 101, 97, 116, 104, 101,
    114, 109, 97, 112, 46, 111, 114, 103 >>

\* The characters of f"https://{OPENWEATHER_ENDPOINT}".
OriginChars == << 104, 116, 116, 112, 115, 58, 47, 47 >> \o EndpointChars

\* The characters of "/data/2.5/weather?q=", "&appid=" and "&units=".
PathChars ==
    << 47, 100, 97, 116, 97, 47, 50, 46, 53, 47, 119, 101, 97, 116, 104,
    101, 114, 63, 113, 61 >>

AppidChars == << 38, 97, 112, 112, 105, 100, 61 >>

UnitsChars == << 38, 117, 110, 105, 116, 115, 61 >>

----------------------------------------------------------------------------
(* Options.  A Python value that may be None is a set of at most one       *)
(* element when its values are numbers or records, and a record when its   *)
(* values are strings.                                                     *)

None == {}

Some(v) == {v}

The(o) == CHOOSE v \in o : TRUE

NoKey == [some |-> FALSE, v |-> << >>]

Key(v) == [some |-> TRUE, v |-> v]

----------------------------------------------------------------------------
(* Text.                                                                   *)

\* str.lower() on ASCII text: A..Z become a..z, everything else is kept.
LowerChar(c) == IF c >= 65 /\ c <= 90 THEN c + 32 ELSE c

Lower(s) == [i \in 1..Len(s) |-> LowerChar(s[i])]

\* The characters urllib.parse.quote leaves alone with its default safe="/":
\* letters, digits, "_", ".", "-", "~" and "/".
IsUnreserved(c) ==
    \/ c >= 65 /\ c <= 90
    \/ c >= 97 /\ c <= 122
    \/ c >= 48 /\ c <= 57
    \/ c \in {95, 46, 45, 126, 47}

\* One upper-case hexadecimal digit, as its character code.
HexDigit(n) == IF n < 10 THEN 48 + n ELSE 55 + n

\* "%XX" for one ASCII character.
PercentEncode(c) == << 37, HexDigit(c \div 16), HexDigit(c % 16) >>

RECURSIVE Quote(_)
Quote(s) ==
    IF s = << >> THEN << >>
    ELSE (IF IsUnreserved(Head(s)) THEN << Head(s) >> ELSE PercentEncode(Head(s)))
         \o Quote(Tail(s))

\* s.replace(old, new) for a non-empty old: every occurrence, taken from the
\* left, none overlapping the one before.
RECURSIVE Replace(_, _, _)
Replace(s, old, new) ==
    IF Len(s) < Len(old) THEN s
    ELSE IF SubSeq(s, 1, Len(old)) = old
    THEN new \o Replace(SubSeq(s, Len(old) + 1, Len(s)), old, new)
    ELSE << Head(s) >> \o Replace(Tail(s), old, new)

\* b"".join(chunks)
RECURSIVE Join(_)
Join(cs) == IF cs = << >> THEN << >> ELSE Head(cs) \o Join(Tail(cs))

Min(a, b) == IF a <= b THEN a ELSE b

----------------------------------------------------------------------------
(* Inputs.                                                                 *)

\* "imperial", "IMPERIAL", "Imperial", "metric", "" and "kelvin".
Units ==
    { << 105, 109, 112, 101, 114, 105, 97, 108 >>,
      << 73, 77, 80, 69, 82, 73, 65, 76 >>,
      << 73, 109, 112, 101, 114, 105, 97, 108 >>,
      << 109, 101, 116, 114, 105, 99 >>,
      << >>,
      << 107, 101, 108, 118, 105, 110 >> }

\* "Paris" and "New York".
Locations ==
    { << 80, 97, 114, 105, 115 >>,
      << 78, 101, 119, 32, 89, 111, 114, 107 >> }

\* The environments: lists of (name, value) pairs, in the host's order.
\* Values of environment entries, by their characters: "/bin", "k1", "k2",
\* and a key that holds the origin of the service,
\* "xhttps://api.openweathermap.orgy".
BinChars == << 47, 98, 105, 110 >>

K1 == << 107, 49 >>

K2 == << 107, 50 >>

KeyWithOrigin == << 120 >> \o OriginChars \o << 121 >>

Envs ==
    { << >>,
      << << "PATH", BinChars >> >>,
      << << API_KEY_NAME, << >> >> >>,
      << << API_KEY_NAME, K1 >> >>,
      << << "PATH", BinChars >>, << API_KEY_NAME, K1 >> >>,
      << << API_KEY_NAME, K1 >>, << API_KEY_NAME, K2 >> >>,
      << << API_KEY_NAME, << >> >>, << API_KEY_NAME, K2 >> >>,
      << << API_KEY_NAME, KeyWithOrigin >> >> }

\* The statuses an IncomingResponse carries: the edges of every class of
\* 100..599 and of the accepted range.
Statuses == { 100, 199, 200, 201, 204, 299, 300, 301, 404, 500, 599 }

\* wasi:http error codes, as Python prints them.
ErrorCodes == { "ErrorCode_ConnectionRefused()", "ErrorCode_DnsTimeout()" }

\* What response.get() can return: None, Err(None), Ok(Err(code)) and
\* Ok(Ok(IncomingResponse)), the response given by its status.
Outcome(outer, inner, code, st) ==
    [outer |-> outer, inner |-> inner, code |-> code, status |-> st]

NoResult == Outcome("-", "-", "", 0)

Outcomes ==
    { Outcome("None", "-", "", 0), Outcome("Err", "-", "None", 0) }
    \cup { Outcome("Ok", "Err", c, 0) : c \in ErrorCodes }
    \cup { Outcome("Ok", "Ok", "", s) : s \in Statuses }

----------------------------------------------------------------------------
(* The values json.loads gives.  A value is a record of one field, named   *)
(* after its type: a dict is a function of its keys, a list a sequence, a  *)
(* str a string, a number an integer (the payloads here have no fraction), *)
(* and null is None.                                                       *)

JNull == [null |-> TRUE]

JBool(b) == [bool |-> b]

JNum(n) == [number |-> n]

JStr(s) == [string |-> s]

JArr(a) == [array |-> a]

JObj(o) == [object |-> o]

\* weather_data before json.loads has returned.
NoData == [unset |-> TRUE]

\* The type of a value: the name of its one field.
TypeOf(x) == CHOOSE k \in DOMAIN x : TRUE

\* type(x).__name__, as the messages of TypeError and AttributeError name it.
TypeName(x) ==
    CASE TypeOf(x) = "object" -> "dict"
      [] TypeOf(x) = "array" -> "list"
      [] TypeOf(x) = "string" -> "str"
      [] TypeOf(x) = "number" -> "int"
      [] TypeOf(x) = "bool" -> "bool"
      [] TypeOf(x) = "null" -> "NoneType"

(* The weather service's payloads.  A body is a sequence of byte fragments  *)
(* (each a piece of the JSON text); json is the value json.loads gives for  *)
(* the whole text.                                                          *)

BadUtf8 == "\\xff"

PayloadTable ==
    << \* every field present; one weather entry without a description, and
       \* a unit of the payload's own
       [bytes |-> << "{\"name\":\"Paris\",\"main\":{\"temp\":21,",
                     "\"feels_like\":20,\"humidity\":60},",
                     "\"wind\":{\"speed\":5,\"deg\":180},",
                     "\"weather\":[{\"description\":\"clear sky\"},{\"id\":800}],\"unit\":\"standard\"}" >>,
        json |-> JObj([name |-> JStr("Paris"),
                 main |-> JObj([temp |-> JNum(21), feels_like |-> JNum(20),
                 humidity |-> JNum(60)]), wind |-> JObj([speed |-> JNum(5),
                 deg |-> JNum(180)]),
                 weather |-> JArr(<< JObj([description |-> JStr("clear sky")]),
                 JObj([id |-> JNum(800)]) >>), unit |-> JStr("standard")])],
       \* the required fields only
       [bytes |-> << "{\"main\":{",
                     "\"temp\":21,",
                     "\"feels_like\":20}}" >>,
        json |-> JObj([main |-> JObj([temp |-> JNum(21),
                 feels_like |-> JNum(20)])])],
       \* main.temp missing
       [bytes |-> << "{\"main\":{",
                     "\"feels_like\":20}}" >>,
        json |-> JObj([main |-> JObj([feels_like |-> JNum(20)])])],
       \* main.feels_like missing, a wind object with a speed only
       [bytes |-> << "{\"main\":{",
                     "\"temp\":21},\"wind\":{\"speed\":5}}" >>,
        json |-> JObj([main |-> JObj([temp |-> JNum(21)]),
                 wind |-> JObj([speed |-> JNum(5)])])],
       \* no main section
       [bytes |-> << "{\"cod\":\"404\"}" >>,
        json |-> JObj([cod |-> JStr("404")])],
       \* valid JSON that is not an object
       [bytes |-> << "[]" >>,
        json |-> JArr(<< >>)],
       \* a humidity of 0 and an empty wind object
       [bytes |-> << "{\"main\":{\"temp\":21,\"feels_like\":20,\"humidity\":0},",
                     "\"wind\":{}}" >>,
        json |-> JObj([main |-> JObj([temp |-> JNum(21),
                 feels_like |-> JNum(20), humidity |-> JNum(0)]),
                 wind |-> JObj(<< >>)])],
       \* a wind speed of 0 and no degrees, an empty weather list
       [bytes |-> << "{\"main\":{\"temp\":21,\"feels_like\":20},\"wind\":{\"speed\":0},",
                     "\"weather\":[]}" >>,
        json |-> JObj([main |-> JObj([temp |-> JNum(21),
                 feels_like |-> JNum(20)]), wind |-> JObj([speed |-> JNum(0)]),
                 weather |-> JArr(<< >>)])],
       \* wind degrees and no speed
       [bytes |-> << "{\"main\":{\"temp\":21,\"feels_like\":20},",
                     "\"wind\":{\"deg\":180}}" >>,
        json |-> JObj([main |-> JObj([temp |-> JNum(21),
                 feels_like |-> JNum(20)]),
                 wind |-> JObj([deg |-> JNum(180)])])],
       \* a wind section that is null
       [bytes |-> << "{\"main\":{\"temp\":21,\"feels_like\":20},\"wind\":null}" >>,
        json |-> JObj([main |-> JObj([temp |-> JNum(21),
                 feels_like |-> JNum(20)]), wind |-> JNull])],
       \* a wind section that is a list
       [bytes |-> << "{\"main\":{\"temp\":21,\"feels_like\":20},\"wind\":[]}" >>,
        json |-> JObj([main |-> JObj([temp |-> JNum(21),
                 feels_like |-> JNum(20)]), wind |-> JArr(<< >>)])],
       \* a weather section that is null
       [bytes |-> << "{\"main\":{\"temp\":21,\"feels_like\":20},\"weather\":null}" >>,
        json |-> JObj([main |-> JObj([temp |-> JNum(21),
                 feels_like |-> JNum(20)]), weather |-> JNull])],
       \* null for main.temp, main.humidity and wind.speed
       [bytes |-> << "{\"main\":{\"temp\":null,\"feels_like\":20,\"humidity\":null},\"wind\":{\"speed\":null,\"deg\":180}}" >>,
        json |-> JObj([main |-> JObj([temp |-> JNull, feels_like |-> JNum(20),
                 humidity |-> JNull]), wind |-> JObj([speed |-> JNull,
                 deg |-> JNum(180)])])],
       \* a main section that is a list
       [bytes |-> << "{\"main\":[]}" >>,
        json |-> JObj([main |-> JArr(<< >>)])],
       \* a main section that is null
       [bytes |-> << "{\"main\":null}" >>,
        json |-> JObj([main |-> JNull])],
       \* the JSON value null
       [bytes |-> << "null" >>,
        json |-> JNull],
       \* main.temp missing under a weather section that is null
       [bytes |-> << "{\"weather\":null,\"main\":{\"feels_like\":20}}" >>,
        json |-> JObj([weather |-> JNull,
                 main |-> JObj([feels_like |-> JNum(20)])])] >>

\* What a body stream can hold: a payload's text, nothing at all, or bytes
\* that are not UTF-8.
StreamContents ==
    { PayloadTable[i].bytes : i \in DOMAIN PayloadTable }
    \cup { << >>, << BadUtf8 >> }

----------------------------------------------------------------------------
(* Exceptions and results of the steps that can raise.                     *)

Exc(type, msg) == [type |-> type, msg |-> msg]

NoExc == Exc("", "")

Returned(v) == [ok |-> TRUE, value |-> v, exc |-> NoExc]

Raised(type, msg) == [ok |-> FALSE, value |-> NoData, exc |-> Exc(type, msg)]

\* What json.loads says of each text that is the beginning of a payload and
\* not the whole of it.
JsonErrorTable ==
    << [bytes |-> << >>,
        msg |-> "Expecting value: line 1 column 1 (char 0)"],
       [bytes |-> SubSeq(PayloadTable[1].bytes, 1, 1),
        msg |-> "Expecting property name enclosed in double quotes: line 1 column 35 (char 34)"],
       [bytes |-> SubSeq(PayloadTable[1].bytes, 1, 2),
        msg |-> "Expecting property name enclosed in double quotes: line 1 column 66 (char 65)"],
       [bytes |-> SubSeq(PayloadTable[1].bytes, 1, 3),
        msg |-> "Expecting property name enclosed in double quotes: line 1 column 95 (char 94)"],
       [bytes |-> SubSeq(PayloadTable[2].bytes, 1, 1),
        msg |-> "Expecting property name enclosed in double quotes: line 1 column 10 (char 9)"],
       [bytes |-> SubSeq(PayloadTable[2].bytes, 1, 2),
        msg |-> "Expecting property name enclosed in double quotes: line 1 column 20 (char 19)"],
       [bytes |-> SubSeq(PayloadTable[7].bytes, 1, 1),
        msg |-> "Expecting property name enclosed in double quotes: line 1 column 50 (char 49)"],
       [bytes |-> SubSeq(PayloadTable[8].bytes, 1, 1),
        msg |-> "Expecting property name enclosed in double quotes: line 1 column 56 (char 55)"],
       [bytes |-> SubSeq(PayloadTable[9].bytes, 1, 1),
        msg |-> "Expecting property name enclosed in double quotes: line 1 column 37 (char 36)"] >>

\* json.loads(body.decode('utf-8')): the text must be UTF-8 and the whole of
\* one JSON document.
JsonLoads(b) ==
    IF \E i \in DOMAIN b : b[i] = BadUtf8
    THEN Raised("UnicodeDecodeError",
                "'utf-8' codec can't decode byte 0xff in position 0: invalid start byte")
    ELSE IF \E i \in DOMAIN PayloadTable : PayloadTable[i].bytes = b
    THEN Returned(PayloadTable[CHOOSE i \in DOMAIN PayloadTable :
                                   PayloadTable[i].bytes = b].json)
    ELSE Raised("JSONDecodeError",
                JsonErrorTable[CHOOSE i \in DOMAIN JsonErrorTable :
                                   JsonErrorTable[i].bytes = b].msg)

\* key in x, for a str key: a key of a dict, an element of a list, a part of
\* a str; a TypeError for a value that is no container.
PyIn(key, x) ==
    CASE TypeOf(x) = "object" -> Returned(key \in DOMAIN x.object)
      [] TypeOf(x) = "array" ->
            Returned(\E i \in DOMAIN x.array : x.array[i] = JStr(key))
      [] TypeOf(x) = "string" ->
            Returned(\E i \in 1..(Len(x.string) - Len(key) + 1) :
                        SubSeq(x.string, i, i + Len(key) - 1) = key)
      [] OTHER ->
            Raised("TypeError",
                   "argument of type '" \o TypeName(x) \o "' is not iterable")

\* x[key], for a str key.
PyItem(x, key) ==
    CASE TypeOf(x) = "object" ->
            IF key \in DOMAIN x.object THEN Returned(x.object[key])
            ELSE Raised("KeyError", "'" \o key \o "'")
      [] TypeOf(x) = "array" ->
            Raised("TypeError", "list indices must be integers or slices, not str")
      [] TypeOf(x) = "string" ->
            Raised("TypeError", "string indices must be integers, not 'str'")
      [] OTHER ->
            Raised("TypeError",
                   "'" \o TypeName(x) \o "' object is not subscriptable")

\* x.get(key, default): a dict alone has the method.
PyGet(x, key, default) ==
    IF TypeOf(x) = "object"
    THEN Returned(IF key \in DOMAIN x.object THEN x.object[key] ELSE default)
    ELSE Raised("AttributeError",
                "'" \o TypeName(x) \o "' object has no attribute 'get'")

\* The keys in S as str values, one after the other.  What the code does with
\* them (line 155) does not depend on their order.
RECURSIVE KeysOf(_)
KeysOf(S) ==
    IF S = {} THEN << >>
    ELSE LET k == CHOOSE k \in S : TRUE
         IN  << JStr(k) >> \o KeysOf(S \ { k })

\* for w in x: the elements of a list, the keys of a dict, the characters of
\* a str; a TypeError for any other value.
PyIter(x) ==
    CASE TypeOf(x) = "array" -> Returned(x.array)
      [] TypeOf(x) = "object" -> Returned(KeysOf(DOMAIN x.object))
      [] TypeOf(x) = "string" ->
            Returned([i \in 1..Len(x.string) |-> JStr(SubSeq(x.string, i, i))])
      [] OTHER ->
            Raised("TypeError", "'" \o TypeName(x) \o "' object is not iterable")

\* [w.get("description", "") for w in ws if "description" in w], item by
\* item: the first item that raises ends it.
RECURSIVE Descriptions(_)
Descriptions(ws) ==
    IF ws = << >> THEN Returned(<< >>)
    ELSE LET has == PyIn("description", Head(ws)) IN
         IF ~has.ok THEN Raised(has.exc.type, has.exc.msg)
         ELSE IF ~has.value THEN Descriptions(Tail(ws))
         ELSE LET d == PyGet(Head(ws), "description", JStr("")) IN
              IF ~d.ok THEN d
              ELSE LET rest == Descriptions(Tail(ws)) IN
                   IF ~rest.ok THEN rest
                   ELSE Returned(<< d.value >> \o rest.value)

\* Lines 150-156: weather_conditions, [] unless "weather" in weather_data.
WeatherConditions(data) ==
    LET has == PyIn("weather", data) IN
    IF ~has.ok THEN Raised(has.exc.type, has.exc.msg)
    ELSE IF ~has.value THEN Returned(<< >>)
    ELSE LET ws == PyItem(data, "weather") IN
         IF ~ws.ok THEN ws
         ELSE LET items == PyIter(ws.value) IN
              IF ~items.ok THEN items ELSE Descriptions(items.value)

\* d[outer][inner] (lines 161, 162).
ItemOfItem(d, outer, inner) ==
    LET o == PyItem(d, outer) IN
    IF ~o.ok THEN o ELSE PyItem(o.value, inner)

\* d.get(outer, {}).get(inner) (lines 163-165).
GetNested(d, outer, inner) ==
    LET o == PyGet(d, outer, JObj(<< >>)) IN
    IF ~o.ok THEN o ELSE PyGet(o.value, inner, JNull)

\* Lines 159-168: the WeatherResponse, its arguments evaluated in the order
\* written; the first that raises ends it.  The fields read from the payload
\* hold its values, None being null; unit and weather_conditions are the str
\* and the list the code made.
BuildResponse(data, conditions, unit_value) ==
    LET name == PyGet(data, "name", JStr(""))
        temp == ItemOfItem(data, "main", "temp")
        feels == ItemOfItem(data, "main", "feels_like")
        speed == GetNested(data, "wind", "speed")
        deg == GetNested(data, "wind", "deg")
        hum == GetNested(data, "main", "humidity")
    IN  IF ~name.ok THEN name
        ELSE IF ~temp.ok THEN temp
        ELSE IF ~feels.ok THEN feels
        ELSE IF ~speed.ok THEN speed
        ELSE IF ~deg.ok THEN deg
        ELSE IF ~hum.ok THEN hum
        ELSE Returned([location |-> name.value,
                       temperature |-> temp.value,
                       feels_like_temperature |-> feels.value,
                       wind_speed |-> speed.value,
                       wind_degrees |-> deg.value,
                       humidity |-> hum.value,
                       unit |-> unit_value,
                       weather_conditions |-> conditions])

\* get_weather with unit=the payload's own unit when it has one: what the
\* code does not do.
MapWeatherEchoPayloadUnit(data, unit_value) ==
    LET c == WeatherConditions(data)
        own == TypeOf(data) = "object" /\ "unit" \in DOMAIN data.object
               /\ TypeOf(data.object.unit) = "string"
    IN  IF ~c.ok THEN c
        ELSE BuildResponse(data, c.value,
                           IF own THEN data.object.unit.string ELSE unit_value)

\* get_weather, from the weather conditions to the WeatherResponse.
MapWeather(data, unit_value) ==
    LET c == WeatherConditions(data)
    IN  IF ~c.ok THEN c ELSE BuildResponse(data, c.value, unit_value)

\* to_dict testing the optional values for truth instead of "is not None":
\* what the code does not do.
ToDictTruthy(w) ==
    LET has(x) == CASE TypeOf(x) = "null" -> FALSE
                    [] TypeOf(x) = "bool" -> x.bool
                    [] TypeOf(x) = "number" -> x.number # 0
                    [] TypeOf(x) = "string" -> x.string # ""
                    [] TypeOf(x) = "array" -> x.array # << >>
                    [] TypeOf(x) = "object" -> DOMAIN x.object # {}
        keys == { "location", "temperature", "feels_like_temperature", "unit",
                  "weather_conditions" }
                \cup (IF has(w.wind_speed) THEN { "wind_speed" } ELSE {})
                \cup (IF has(w.wind_degrees) THEN { "wind_degrees" } ELSE {})
                \cup (IF has(w.humidity) THEN { "humidity" } ELSE {})
    IN  [k \in keys |-> w[k]]

\* WeatherResponse.to_dict: the five fixed keys, and each optional key whose
\* value is not None.
ToDict(w) ==
    LET keys == { "location", "temperature", "feels_like_temperature", "unit",
                  "weather_conditions" }
                \cup (IF TypeOf(w.wind_speed) # "null" THEN { "wind_speed" } ELSE {})
                \cup (IF TypeOf(w.wind_degrees) # "null" THEN { "wind_degrees" }
                      ELSE {})
                \cup (IF TypeOf(w.humidity) # "null" THEN { "humidity" } ELSE {})
    IN  [k \in keys |-> w[k]]

\* The two error objects check_weather builds.
ConfigError == [error |-> "OPENWEATHER_API_KEY environment variable not set"]

FetchError(e) == [error |-> "Failed to fetch weather: " \o e.msg]

NoOut == [pending |-> TRUE]

----------------------------------------------------------------------------
(* The sandbox plugin (python-sandbox/app.py): Python values, json.dumps,  *)
(* and what Python's eval and exec do with the expressions and statements  *)
(* of the model.                                                           *)

PyInt(n) == [t |-> "int", v |-> n]

PyStr(s) == [t |-> "str", v |-> s]

PyBool(b) == [t |-> "bool", v |-> b]

PyList(xs) == [t |-> "list", v |-> xs]

PyNone == [t |-> "none", v |-> 0]

PySet == [t |-> "set", v |-> 0]

\* json.dumps can serialize the value: a set, alone or in a list, it cannot.
RECURSIVE Serializable(_)
Serializable(x) ==
    CASE x.t = "set" -> FALSE
      [] x.t = "list" -> \A i \in DOMAIN x.v : Serializable(x.v[i])
      [] OTHER -> TRUE

\* The digit of \uXXXX for a value 0..15, in lower case.
HexCode(d) == IF d < 10 THEN 48 + d ELSE 87 + d

\* "\uXXXX" for a code below 65536.
UnicodeEscape(n) ==
    << 92, 117, HexCode((n \div 4096) % 16), HexCode((n \div 256) % 16),
       HexCode((n \div 16) % 16), HexCode(n % 16) >>

\* What json.dumps writes for one character of a str, ensure_ascii being on:
\* the quote and the backslash behind a backslash, the short escapes, \uXXXX
\* for every other character outside the space..tilde range (a surrogate
\* pair above the basic plane), and the character itself otherwise.
JsonEscape(c) ==
    CASE c = 34 -> << 92, 34 >>
      [] c = 92 -> << 92, 92 >>
      [] c = 10 -> << 92, 110 >>
      [] c = 13 -> << 92, 114 >>
      [] c = 9 -> << 92, 116 >>
      [] c = 12 -> << 92, 102 >>
      [] c = 8 -> << 92, 98 >>
      [] c >= 65536 ->
            UnicodeEscape(55296 + (((c - 65536) \div 1024) % 1024))
                \o UnicodeEscape(56320 + ((c - 65536) % 1024))
      [] c < 32 \/ c > 126 -> UnicodeEscape(c)
      [] OTHER -> << c >>

RECURSIVE JsonString(_)
JsonString(cs) ==
    IF cs = << >> THEN << >>
    ELSE JsonEscape(Head(cs)) \o JsonString(Tail(cs))

\* The decimal digits of a natural number.
RECURSIVE DigitChars(_)
DigitChars(n) ==
    IF n < 10 THEN << 48 + n >>
    ELSE DigitChars(n \div 10) \o << 48 + (n % 10) >>

\* int.__repr__, as json.dumps writes an int.
IntText(n) == IF n < 0 THEN << 45 >> \o DigitChars(-n) ELSE DigitChars(n)

\* The text json.dumps gives, with its default separators, as the sequence
\* of its characters' codes.  A str is the sequence of its characters' codes.
RECURSIVE JsonText(_)
JsonText(x) ==
    CASE x.t = "int" -> IntText(x.v)
      [] x.t = "str" -> << 34 >> \o JsonString(x.v) \o << 34 >>
      [] x.t = "bool" -> IF x.v THEN << 116, 114, 117, 101 >>
                         ELSE << 102, 97, 108, 115, 101 >>
      [] x.t = "none" -> << 110, 117, 108, 108 >>
      [] x.t = "list" ->
            LET RECURSIVE Items(_)
                Items(i) == IF i > Len(x.v) THEN << >>
                            ELSE (IF i > 1 THEN << 44, 32 >> ELSE << >>)
                                 \o JsonText(x.v[i]) \o Items(i + 1)
            IN  << 91 >> \o Items(1) \o << 93 >>

\* json.dumps(result)
JsonDumps(x) ==
    IF Serializable(x) THEN Returned(JsonText(x))
    ELSE Raised("TypeError", "Object of type set is not JSON serializable")

\* Python's eval on the expressions of the model: the value, or the exception.
EvalTable ==
    << [expression |-> "2 + 2", outcome |-> Returned(PyInt(4))],
       [expression |-> "[1, 2, 3]",
        outcome |-> Returned(PyList(<< PyInt(1), PyInt(2), PyInt(3) >>))],
       [expression |-> "[True, -1]",
        outcome |-> Returned(PyList(<< PyBool(TRUE), PyInt(-1) >>))],
       [expression |-> "'a'", outcome |-> Returned(PyStr(<< 97 >>))],
       [expression |-> "'a\"b'", outcome |-> Returned(PyStr(<< 97, 34, 98 >>))],
       [expression |-> "'a\\\\b'", outcome |-> Returned(PyStr(<< 97, 92, 98 >>))],
       [expression |-> "'\\n'", outcome |-> Returned(PyStr(<< 10 >>))],
       [expression |-> "'\\u00e9'", outcome |-> Returned(PyStr(<< 233 >>))],
       [expression |-> "'\\U0001f600'", outcome |-> Returned(PyStr(<< 128512 >>))],
       [expression |-> "['\\t', 127]",
        outcome |-> Returned(PyList(<< PyStr(<< 9 >>), PyInt(127) >>))],
       [expression |-> "None", outcome |-> Returned(PyNone)],
       [expression |-> "{1}", outcome |-> Returned(PySet)],
       [expression |-> "unknown_var",
        outcome |-> Raised("NameError", "name 'unknown_var' is not defined")],
       [expression |-> "1/0",
        outcome |-> Raised("ZeroDivisionError", "division by zero")],
       [expression |-> "next(iter([]))", outcome |-> Raised("StopIteration", "")] >>

Expressions == { EvalTable[i].expression : i \in DOMAIN EvalTable }

PyEval(expression) ==
    EvalTable[CHOOSE i \in DOMAIN EvalTable :
                 EvalTable[i].expression = expression].outcome

\* Python's exec on the statements of the model: what they write to stdout
\* and stderr, and the exception they end in, if any.
ExecTable ==
    << [statements |-> "print('Hello')", written |-> "Hello\n", exc |-> NoExc],
       [statements |-> "for i in range(3):\n    print(i)",
        written |-> "0\n1\n2\n", exc |-> NoExc],
       [statements |-> "import sys\nprint('e', file=sys.stderr)",
        written |-> "e\n", exc |-> NoExc],
       [statements |-> "pass", written |-> "", exc |-> NoExc],
       [statements |-> "1/0", written |-> "",
        exc |-> Exc("ZeroDivisionError", "division by zero")],
       [statements |-> "print('a')\n1/0", written |-> "a\n",
        exc |-> Exc("ZeroDivisionError", "division by zero")],
       [statements |-> "assert False", written |-> "",
        exc |-> Exc("AssertionError", "")] >>

Statements == { ExecTable[i].statements : i \in DOMAIN ExecTable }

PyExec(statements) ==
    ExecTable[CHOOSE i \in DOMAIN ExecTable :
                 ExecTable[i].statements = statements]

\* What a method of the sandbox hands its caller: the string it returns, or
\* the Err it raises.
SbOk(s) == [ok |-> TRUE, value |-> s]

Err(m) == [ok |-> FALSE, value |-> m]

NoArg == [op |-> "", text |-> ""]

----------------------------------------------------------------------------
(* State of one invocation.                                                *)

NoUrl == << >>

NoRequest ==
    [method |-> "", scheme |-> "", authority |-> "", path_with_query |-> << >>,
     headers |-> << >>]

NoOps ==
    [handle |-> 0, subscribe |-> 0, poll |-> 0, get |-> 0, status |-> 0,
     consume |-> 0, stream |-> 0, read |-> 0]

Inc(op) == [ops EXCEPT ![op] = @ + 1]

\* Every local as a fresh invocation finds it, and a host that has given
\* this invocation nothing yet. api_key is left to the assignment of line 182.
Fresh ==
    /\ unit_enum' = ""
    /\ request_url' = NoUrl
    /\ request' = NoRequest
    /\ result' = NoResult
    /\ status' = None
    /\ chunks' = << >>
    /\ body' = None
    /\ weather_data' = NoData
    /\ weather' = None
    /\ exc' = NoExc
    /\ out' = NoOut
    /\ stream_bytes' = << >>
    /\ stream_pos' = 0
    /\ stream_end' = "open"
    /\ held' = {}
    /\ ops' = NoOps

Init ==
    /\ pc = "idle"
    /\ location = << >>
    /\ unit = << >>
    /\ env = << >>
    /\ api_key = NoKey
    /\ unit_enum = ""
    /\ request_url = NoUrl
    /\ request = NoRequest
    /\ result = NoResult
    /\ status = None
    /\ chunks = << >>
    /\ body = None
    /\ weather_data = NoData
    /\ weather = None
    /\ exc = NoExc
    /\ out = NoOut
    /\ stream_bytes = << >>
    /\ stream_pos = 0
    /\ stream_end = "open"
    /\ held = {}
    /\ ops = NoOps
    /\ sb_pc = "idle"
    /\ sb_arg = NoArg
    /\ sb_result = PyNone
    /\ sb_buffer = ""
    /\ sb_exc = NoExc
    /\ sb_out = NoOut

----------------------------------------------------------------------------
(* Where an exception raised at a position is caught: the try blocks of    *)
(* make_http_request (the read loop), get_weather and check_weather.       *)
(* "raised" is the exception leaving check_weather.                        *)

MhrSites ==
    { "mhr_request", "mhr_handle", "mhr_subscribe", "mhr_poll", "mhr_get",
      "mhr_none", "mhr_outer", "mhr_inner", "mhr_status", "mhr_consume",
      "mhr_stream", "mhr_stream_except", "mhr_join" }

\* A check_weather without its try block: only the read loop and get_weather
\* catch.
HandlerOfNoOuterTry(site) ==
    CASE site = "mhr_read" -> "mhr_stream_except"
      [] site \in MhrSites \cup { "gw_parse", "gw_map" } -> "gw_except"
      [] OTHER -> "raised"

HandlerOf(site) ==
    CASE site = "mhr_read" -> "mhr_stream_except"
      [] site \in MhrSites \cup { "gw_parse", "gw_map" } -> "gw_except"
      [] site \in { "gw_url", "gw_except", "cw_dumps" } -> "cw_except"
      [] OTHER -> "raised"

\* raise e at the current position.
Raise(e) ==
    /\ exc' = e
    /\ pc' = HandlerOf(pc)

----------------------------------------------------------------------------
(* check_weather, up to the call of get_weather.                           *)

\* A loop without the break, the last entry of that name winning: what the
\* code does not do.
LookupKeyLast(env_vars) ==
    IF \E i \in DOMAIN env_vars : env_vars[i][1] = API_KEY_NAME
    THEN LET last == CHOOSE i \in DOMAIN env_vars :
                        /\ env_vars[i][1] = API_KEY_NAME
                        /\ \A j \in (i + 1)..Len(env_vars) :
                              env_vars[j][1] # API_KEY_NAME
         IN  Key(env_vars[last][2])
    ELSE NoKey

\* The for loop over env_vars: the value of the first entry of that name.
LookupKey(env_vars) ==
    IF \E i \in DOMAIN env_vars : env_vars[i][1] = API_KEY_NAME
    THEN LET first == CHOOSE i \in DOMAIN env_vars :
                        /\ env_vars[i][1] = API_KEY_NAME
                        /\ \A j \in 1..(i - 1) : env_vars[j][1] # API_KEY_NAME
         IN  Key(env_vars[first][2])
    ELSE NoKey

\* A test for the empty string that lets a missing key through.
FalsyEmptyOnly(k) == k.some /\ k.v = << >>

\* not api_key
Falsy(k) == ~k.some \/ k.v = << >>

\* A unit parsing that forgets to lower-case.
ParseUnitExact(u) == IF u = ImperialChars THEN IMPERIAL ELSE METRIC

\* The unit parsing of check_weather.
ParseUnitValue(u) == IF Lower(u) = ImperialChars THEN IMPERIAL ELSE METRIC

\* A caller invokes check_weather(l, u) while the environment is e.
Call(l, u, e) ==
    /\ pc \in { "idle", "returned" }
    /\ sb_pc = "idle"
    /\ pc' = "cw_env"
    /\ location' = l
    /\ unit' = u
    /\ env' = e
    /\ Fresh
    /\ UNCHANGED api_key
    /\ UNCHANGED sbvars

\* A lookup that starts from the key of the call before instead of None:
\* what the code does not do.
GetEnvironmentNoInit ==
    /\ pc = "cw_env"
    /\ api_key' = IF \E i \in DOMAIN env : env[i][1] = API_KEY_NAME
                  THEN LookupKey(env) ELSE api_key
    /\ IF Falsy(api_key')
       THEN /\ out' = ConfigError
            /\ pc' = "returned"
       ELSE /\ out' = out
            /\ pc' = "cw_unit"
    /\ UNCHANGED << location, unit, env, unit_enum, request_url, request, result,
                    status, chunks, body, weather_data, weather, exc,
                    stream_bytes, stream_pos, stream_end, held, ops >>
    /\ UNCHANGED sbvars

\* api_key = None, the loop over the environment, and the test of the key.
GetEnvironment ==
    /\ pc = "cw_env"
    /\ api_key' = LookupKey(env)
    /\ IF Falsy(api_key')
       THEN /\ out' = ConfigError
            /\ pc' = "returned"
       ELSE /\ out' = out
            /\ pc' = "cw_unit"
    /\ UNCHANGED << location, unit, env, unit_enum, request_url, request, result,
                    status, chunks, body, weather_data, weather, exc,
                    stream_bytes, stream_pos, stream_end, held, ops >>
    /\ UNCHANGED sbvars

ParseUnit ==
    /\ pc = "cw_unit"
    /\ unit_enum' = ParseUnitValue(unit)
    /\ pc' = "gw_url"
    /\ UNCHANGED << location, unit, env, api_key, request_url, request, result,
                    status, chunks, body, weather_data, weather, exc, out,
                    stream_bytes, stream_pos, stream_end, held, ops >>
    /\ UNCHANGED sbvars

----------------------------------------------------------------------------
(* get_weather, before the request.                                        *)

\* f"https://{OPENWEATHER_ENDPOINT}/data/2.5/weather?q=...&appid=...&units=..."
UrlText(encoded_location, key, unit_query) ==
    OriginChars \o PathChars \o encoded_location \o AppidChars \o key
        \o UnitsChars \o UnitChars(unit_query)

BuildUrl ==
    /\ pc = "gw_url"
    /\ request_url' = UrlText(Quote(location), api_key.v, unit_enum)
    /\ pc' = "mhr_request"
    /\ UNCHANGED << location, unit, env, api_key, unit_enum, request, result,
                    status, chunks, body, weather_data, weather, exc, out,
                    stream_bytes, stream_pos, stream_end, held, ops >>
    /\ UNCHANGED sbvars

----------------------------------------------------------------------------
(* make_http_request.                                                      *)
(*                                                                         *)
(* held follows the resource handles the guest owns.  A handle enters it   *)
(* where the code obtains the resource and leaves it where the code gives  *)
(* the resource to the host (the request, to outgoing_handler.handle).     *)
(* app.py drops no handle by a statement of its own: it has no with block, *)
(* no __exit__ call and no finally.  The handles are locals of             *)
(* make_http_request and their Python objects are finalized when its frame *)
(* ends: at its return at line 132 or, when it raises, when check_weather's*)
(* except clause lets go of the exception, whose traceback holds the       *)
(* frame.  What the finalization of such an object does is the work of the *)
(* generated bindings (wit_world), which are not under src/: it is taken   *)
(* from the specification, whose section 4.2 has the connection            *)
(* "implicitly closed by resource teardown" and whose section 3 lets the   *)
(* response and its body stream "live only for the duration of one weather *)
(* fetch".                                                                 *)

\* The handles among h that the teardown of their objects drops: all.
DroppedAtTeardown(h) == h

\* A range check that lets 300 through.
StatusOkInclusive(s) == 200 <= s /\ s <= 300

\* 200 <= status < 300
StatusOk(s) == 200 <= s /\ s < 300

\* The Fields and the OutgoingRequest: the request takes the headers over.
BuildRequest ==
    /\ pc = "mhr_request"
    /\ request' = [method |-> "GET", scheme |-> "HTTPS",
                   authority |-> OPENWEATHER_ENDPOINT,
                   path_with_query |-> Replace(request_url, OriginChars, << >>),
                   headers |-> << << "User-Agent", USER_AGENT >> >>]
    /\ held' = held \cup { "request" }
    /\ pc' = "mhr_handle"
    /\ UNCHANGED << location, unit, env, api_key, unit_enum, request_url,
                    result, status, chunks, body, weather_data, weather, exc,
                    out, stream_bytes, stream_pos, stream_end, ops >>
    /\ UNCHANGED sbvars

\* outgoing_handler.handle takes the request over and gives the future response.
Handle ==
    /\ pc = "mhr_handle"
    /\ ops' = Inc("handle")
    /\ held' = (held \ { "request" }) \cup { "future" }
    /\ pc' = "mhr_subscribe"
    /\ UNCHANGED << location, unit, env, api_key, unit_enum, request_url,
                    request, result, status, chunks, body, weather_data,
                    weather, exc, out, stream_bytes, stream_pos, stream_end >>
    /\ UNCHANGED sbvars

\* outgoing_handler.handle refuses the request: the binding raises Err(code).
HandleFails(c) ==
    /\ pc = "mhr_handle"
    /\ ops' = Inc("handle")
    /\ held' = held \ { "request" }
    /\ Raise(Exc("Err", c))
    /\ UNCHANGED << location, unit, env, api_key, unit_enum, request_url,
                    request, result, status, chunks, body, weather_data,
                    weather, out, stream_bytes, stream_pos, stream_end >>
    /\ UNCHANGED sbvars

Subscribe ==
    /\ pc = "mhr_subscribe"
    /\ ops' = Inc("subscribe")
    /\ held' = held \cup { "pollable" }
    /\ pc' = "mhr_poll"
    /\ UNCHANGED << location, unit, env, api_key, unit_enum, request_url,
                    request, result, status, chunks, body, weather_data,
                    weather, exc, out, stream_bytes, stream_pos, stream_end >>
    /\ UNCHANGED sbvars

\* A wait that gives up after TIMEOUT_SECS: what the code does not do.
PollWithDeadline ==
    /\ pc = "mhr_poll"
    /\ ops' = Inc("poll")
    /\ \/ /\ pc' = "mhr_get"
          /\ exc' = exc
       \/ Raise(Exc("Exception",
                    "Request timed out after " \o ToString(TIMEOUT_SECS)
                        \o " seconds"))
    /\ UNCHANGED << location, unit, env, api_key, unit_enum, request_url,
                    request, result, status, chunks, body, weather_data,
                    weather, out, stream_bytes, stream_pos, stream_end, held >>
    /\ UNCHANGED sbvars

\* poll_module.poll returns: the transport has signalled readiness.
Poll ==
    /\ pc = "mhr_poll"
    /\ ops' = Inc("poll")
    /\ pc' = "mhr_get"
    /\ UNCHANGED << location, unit, env, api_key, unit_enum, request_url,
                    request, result, status, chunks, body, weather_data,
                    weather, exc, out, stream_bytes, stream_pos, stream_end,
                    held >>
    /\ UNCHANGED sbvars

\* response.get() returns r.
Get(r) ==
    /\ pc = "mhr_get"
    /\ ops' = Inc("get")
    /\ result' = r
    /\ held' = IF r.outer = "Ok" /\ r.inner = "Ok"
               THEN held \cup { "incoming_response" }
               ELSE held
    /\ pc' = "mhr_none"
    /\ UNCHANGED << location, unit, env, api_key, unit_enum, request_url,
                    request, status, chunks, body, weather_data, weather, exc,
                    out, stream_bytes, stream_pos, stream_end >>
    /\ UNCHANGED sbvars

CheckNone ==
    /\ pc = "mhr_none"
    /\ IF result.outer = "None"
       THEN Raise(Exc("Exception", "No response received"))
       ELSE /\ pc' = "mhr_outer"
            /\ exc' = exc
    /\ UNCHANGED << location, unit, env, api_key, unit_enum, request_url,
                    request, result, status, chunks, body, weather_data,
                    weather, out, stream_bytes, stream_pos, stream_end, held,
                    ops >>
    /\ UNCHANGED sbvars

\* An unwrapper without the test of the outer layer.
CheckOuterSkipped ==
    /\ pc = "mhr_outer"
    /\ pc' = "mhr_inner"
    /\ UNCHANGED << location, unit, env, api_key, unit_enum, request_url,
                    request, result, status, chunks, body, weather_data,
                    weather, exc, out, stream_bytes, stream_pos, stream_end,
                    held, ops >>
    /\ UNCHANGED sbvars

CheckOuter ==
    /\ pc = "mhr_outer"
    /\ IF result.outer = "Err"
       THEN Raise(Exc("Exception", "Failed to get response: " \o result.code))
       ELSE /\ pc' = "mhr_inner"
            /\ exc' = exc
    /\ UNCHANGED << location, unit, env, api_key, unit_enum, request_url,
                    request, result, status, chunks, body, weather_data,
                    weather, out, stream_bytes, stream_pos, stream_end, held,
                    ops >>
    /\ UNCHANGED sbvars

\* An unwrapper that reads the status without the test of the inner layer.
CheckInnerSkipped ==
    /\ pc = "mhr_inner"
    /\ pc' = "mhr_status"
    /\ UNCHANGED << location, unit, env, api_key, unit_enum, request_url,
                    request, result, status, chunks, body, weather_data,
                    weather, exc, out, stream_bytes, stream_pos, stream_end,
                    held, ops >>
    /\ UNCHANGED sbvars

CheckInner ==
    /\ pc = "mhr_inner"
    /\ IF result.inner = "Err"
       THEN Raise(Exc("Exception",
                      "Request failed with error code: " \o result.code))
       ELSE /\ pc' = "mhr_status"
            /\ exc' = exc
    /\ UNCHANGED << location, unit, env, api_key, unit_enum, request_url,
                    request, result, status, chunks, body, weather_data,
                    weather, out, stream_bytes, stream_pos, stream_end, held,
                    ops >>
    /\ UNCHANGED sbvars

\* incoming_response.status() and the range check.
CheckStatus ==
    /\ pc = "mhr_status"
    /\ ops' = Inc("status")
    /\ status' = Some(result.status)
    /\ IF ~StatusOk(result.status)
       THEN Raise(Exc("Exception",
                      "HTTP error: status code " \o ToString(result.status)))
       ELSE /\ pc' = "mhr_consume"
            /\ exc' = exc
    /\ UNCHANGED << location, unit, env, api_key, unit_enum, request_url,
                    request, result, chunks, body, weather_data, weather, out,
                    stream_bytes, stream_pos, stream_end, held >>
    /\ UNCHANGED sbvars

Consume ==
    /\ pc = "mhr_consume"
    /\ ops' = Inc("consume")
    /\ held' = held \cup { "incoming_body" }
    /\ pc' = "mhr_stream"
    /\ UNCHANGED << location, unit, env, api_key, unit_enum, request_url,
                    request, result, status, chunks, body, weather_data,
                    weather, exc, out, stream_bytes, stream_pos, stream_end >>
    /\ UNCHANGED sbvars

\* incoming_body.stream(), of a body that holds b, and chunks = [].
Stream(b) ==
    /\ pc = "mhr_stream"
    /\ ops' = Inc("stream")
    /\ held' = held \cup { "body_stream" }
    /\ stream_bytes' = b
    /\ stream_pos' = 0
    /\ stream_end' = "open"
    /\ chunks' = << >>
    /\ pc' = "mhr_read"
    /\ UNCHANGED << location, unit, env, api_key, unit_enum, request_url,
                    request, result, status, body, weather_data, weather, exc,
                    out >>
    /\ UNCHANGED sbvars

\* A read loop that puts each chunk in front of the earlier ones.
ReadChunkPrepend(n) ==
    /\ pc = "mhr_read"
    /\ Len(chunks) < MaxChunks
    /\ n \in 1..Min(ReadSize, Len(stream_bytes) - stream_pos)
    /\ ops' = Inc("read")
    /\ chunks' = << SubSeq(stream_bytes, stream_pos + 1, stream_pos + n) >> \o chunks
    /\ stream_pos' = stream_pos + n
    /\ pc' = "mhr_read"
    /\ UNCHANGED << location, unit, env, api_key, unit_enum, request_url,
                    request, result, status, body, weather_data, weather, exc,
                    out, stream_bytes, stream_end, held >>
    /\ UNCHANGED sbvars

\* A reader that returns after its first chunk: what the code does not do.
ReadChunkThenReturn(n) ==
    /\ pc = "mhr_read"
    /\ Len(chunks) < MaxChunks
    /\ n \in 1..Min(ReadSize, Len(stream_bytes) - stream_pos)
    /\ ops' = Inc("read")
    /\ chunks' = Append(chunks, SubSeq(stream_bytes, stream_pos + 1, stream_pos + n))
    /\ stream_pos' = stream_pos + n
    /\ pc' = "mhr_join"
    /\ UNCHANGED << location, unit, env, api_key, unit_enum, request_url,
                    request, result, status, body, weather_data, weather, exc,
                    out, stream_bytes, stream_end, held >>
    /\ UNCHANGED sbvars

\* blocking_read returns the next n bytes (fragments) of the stream.
ReadChunk(n) ==
    /\ pc = "mhr_read"
    /\ Len(chunks) < MaxChunks
    /\ n \in 1..Min(ReadSize, Len(stream_bytes) - stream_pos)
    /\ ops' = Inc("read")
    /\ chunks' = Append(chunks, SubSeq(stream_bytes, stream_pos + 1, stream_pos + n))
    /\ stream_pos' = stream_pos + n
    /\ pc' = "mhr_read"
    /\ UNCHANGED << location, unit, env, api_key, unit_enum, request_url,
                    request, result, status, body, weather_data, weather, exc,
                    out, stream_bytes, stream_end, held >>
    /\ UNCHANGED sbvars

\* A loop that reads on after the empty chunk: what the code does not do.
ReadEmptyContinue ==
    /\ pc = "mhr_read"
    /\ ops' = Inc("read")
    /\ stream_end' = "eof"
    /\ pc' = "mhr_read"
    /\ UNCHANGED << location, unit, env, api_key, unit_enum, request_url,
                    request, result, status, chunks, body, weather_data,
                    weather, exc, out, stream_bytes, stream_pos, held >>
    /\ UNCHANGED sbvars

\* blocking_read returns zero bytes: break.
ReadEmpty ==
    /\ pc = "mhr_read"
    /\ ops' = Inc("read")
    /\ stream_end' = "eof"
    /\ pc' = "mhr_join"
    /\ UNCHANGED << location, unit, env, api_key, unit_enum, request_url,
                    request, result, status, chunks, body, weather_data,
                    weather, exc, out, stream_bytes, stream_pos, held >>
    /\ UNCHANGED sbvars

\* blocking_read raises a stream error.
ReadError ==
    /\ pc = "mhr_read"
    /\ ops' = Inc("read")
    /\ stream_end' = "error"
    /\ Raise(Exc("Err", "StreamError_Closed()"))
    /\ UNCHANGED << location, unit, env, api_key, unit_enum, request_url,
                    request, result, status, chunks, body, weather_data,
                    weather, out, stream_bytes, stream_pos, held >>
    /\ UNCHANGED sbvars

\* An except clause that gives up whatever was read.
StreamExceptAlwaysRaises ==
    /\ pc = "mhr_stream_except"
    /\ Raise(Exc("Exception", "Failed to read response body: " \o exc.msg))
    /\ UNCHANGED << location, unit, env, api_key, unit_enum, request_url,
                    request, result, status, chunks, body, weather_data,
                    weather, out, stream_bytes, stream_pos, stream_end, held,
                    ops >>
    /\ UNCHANGED sbvars

\* The except clause of the read loop.
StreamExcept ==
    /\ pc = "mhr_stream_except"
    /\ IF chunks # << >>
       THEN /\ exc' = NoExc
            /\ pc' = "mhr_join"
       ELSE Raise(Exc("Exception", "Failed to read response body: " \o exc.msg))
    /\ UNCHANGED << location, unit, env, api_key, unit_enum, request_url,
                    request, result, status, chunks, body, weather_data,
                    weather, out, stream_bytes, stream_pos, stream_end, held,
                    ops >>
    /\ UNCHANGED sbvars

\* A return that leaves the frame's objects alive, as a reference kept
\* outside the function would: what the code does not do.
JoinChunksKeepsHandles ==
    /\ pc = "mhr_join"
    /\ body' = Some(Join(chunks))
    /\ pc' = "gw_parse"
    /\ UNCHANGED << location, unit, env, api_key, unit_enum, request_url,
                    request, result, status, chunks, weather_data, weather, exc,
                    out, stream_bytes, stream_pos, stream_end, held, ops >>
    /\ UNCHANGED sbvars

\* return b"".join(chunks): the frame of make_http_request ends and the
\* objects of its handles are torn down.
JoinChunks ==
    /\ pc = "mhr_join"
    /\ body' = Some(Join(chunks))
    /\ held' = held \ DroppedAtTeardown(held)
    /\ pc' = "gw_parse"
    /\ UNCHANGED << location, unit, env, api_key, unit_enum, request_url,
                    request, result, status, chunks, weather_data, weather, exc,
                    out, stream_bytes, stream_pos, stream_end, ops >>
    /\ UNCHANGED sbvars

----------------------------------------------------------------------------
(* get_weather, after the request, and the end of check_weather.           *)

ParseBody ==
    /\ pc = "gw_parse"
    /\ LET r == JsonLoads(The(body))
       IN  IF r.ok
           THEN /\ weather_data' = r.value
                /\ exc' = exc
                /\ pc' = "gw_map"
           ELSE /\ weather_data' = weather_data
                /\ Raise(r.exc)
    /\ UNCHANGED << location, unit, env, api_key, unit_enum, request_url,
                    request, result, status, chunks, body, weather, out,
                    stream_bytes, stream_pos, stream_end, held, ops >>
    /\ UNCHANGED sbvars

MapPayload ==
    /\ pc = "gw_map"
    /\ LET r == MapWeather(weather_data, unit_enum)
       IN  IF r.ok
           THEN /\ weather' = Some(r.value)
                /\ exc' = exc
                /\ pc' = "cw_dumps"
           ELSE /\ weather' = weather
                /\ Raise(r.exc)
    /\ UNCHANGED << location, unit, env, api_key, unit_enum, request_url,
                    request, result, status, chunks, body, weather_data, out,
                    stream_bytes, stream_pos, stream_end, held, ops >>
    /\ UNCHANGED sbvars

\* A get_weather with the generic except clause alone: what the code does not
\* do.
ReraiseGeneric(e) == Exc("Exception", "Failed to fetch weather: " \o e.msg)

\* The two except clauses of get_weather.
Reraise(e) ==
    IF e.type = "KeyError"
    THEN Exc("Exception", "Error parsing weather data: missing field " \o e.msg)
    ELSE Exc("Exception", "Failed to fetch weather: " \o e.msg)

\* A get_weather that answers a failure with another attempt.
GetWeatherExceptRetry ==
    /\ pc = "gw_except"
    /\ exc' = NoExc
    /\ pc' = "mhr_request"
    /\ UNCHANGED << location, unit, env, api_key, unit_enum, request_url,
                    request, result, status, chunks, body, weather_data,
                    weather, out, stream_bytes, stream_pos, stream_end, held,
                    ops >>
    /\ UNCHANGED sbvars

GetWeatherExcept ==
    /\ pc = "gw_except"
    /\ Raise(Reraise(exc))
    /\ UNCHANGED << location, unit, env, api_key, unit_enum, request_url,
                    request, result, status, chunks, body, weather_data,
                    weather, out, stream_bytes, stream_pos, stream_end, held,
                    ops >>
    /\ UNCHANGED sbvars

\* return json.dumps(weather.to_dict())
Dumps ==
    /\ pc = "cw_dumps"
    /\ out' = ToDict(The(weather))
    /\ pc' = "returned"
    /\ UNCHANGED << location, unit, env, api_key, unit_enum, request_url,
                    request, result, status, chunks, body, weather_data,
                    weather, exc, stream_bytes, stream_pos, stream_end, held,
                    ops >>
    /\ UNCHANGED sbvars

\* The except clause of check_weather: the error object is returned, the
\* exception is let go, and with it the frames of its traceback: the objects
\* of the handles they held are torn down.
CheckWeatherExcept ==
    /\ pc = "cw_except"
    /\ out' = FetchError(exc)
    /\ exc' = NoExc
    /\ held' = held \ DroppedAtTeardown(held)
    /\ pc' = "returned"
    /\ UNCHANGED << location, unit, env, api_key, unit_enum, request_url,
                    request, result, status, chunks, body, weather_data,
                    weather, stream_bytes, stream_pos, stream_end, ops >>
    /\ UNCHANGED sbvars

----------------------------------------------------------------------------
(* The sandbox plugin: eval and exec.  An instance is one component, the   *)
(* weather plugin or the sandbox: the sandbox's methods are called on an   *)
(* instance on which check_weather never was, and the reverse.             *)

\* An Err whatever the message: what the code does not do.
HandleExceptionAlwaysColon(e) == Err(e.type \o ": " \o e.msg)

\* handle_exception
HandleException(e) ==
    IF e.msg = "" THEN Err(e.type) ELSE Err(e.type \o ": " \o e.msg)

\* A caller invokes eval(x).
EvalCall(x) ==
    /\ pc = "idle"
    /\ sb_pc \in { "idle", "returned", "raised" }
    /\ sb_pc' = "eval_expression"
    /\ sb_arg' = [op |-> "eval", text |-> x]
    /\ sb_result' = PyNone
    /\ sb_exc' = NoExc
    /\ sb_out' = NoOut
    /\ UNCHANGED sb_buffer
    /\ UNCHANGED wvars

\* result = eval(expression)
EvalExpression ==
    /\ sb_pc = "eval_expression"
    /\ LET r == PyEval(sb_arg.text)
       IN  IF r.ok
           THEN /\ sb_result' = r.value
                /\ sb_exc' = sb_exc
                /\ sb_pc' = "eval_dumps"
           ELSE /\ sb_result' = sb_result
                /\ sb_exc' = r.exc
                /\ sb_pc' = "except"
    /\ UNCHANGED << sb_arg, sb_buffer, sb_out >>
    /\ UNCHANGED wvars

\* return json.dumps(result)
EvalDumps ==
    /\ sb_pc = "eval_dumps"
    /\ LET r == JsonDumps(sb_result)
       IN  IF r.ok
           THEN /\ sb_out' = SbOk(r.value)
                /\ sb_exc' = sb_exc
                /\ sb_pc' = "returned"
           ELSE /\ sb_out' = sb_out
                /\ sb_exc' = r.exc
                /\ sb_pc' = "except"
    /\ UNCHANGED << sb_arg, sb_result, sb_buffer >>
    /\ UNCHANGED wvars

\* A caller invokes exec(s).
ExecCall(s) ==
    /\ pc = "idle"
    /\ sb_pc \in { "idle", "returned", "raised" }
    /\ sb_pc' = "exec_buffer"
    /\ sb_arg' = [op |-> "exec", text |-> s]
    /\ sb_result' = PyNone
    /\ sb_exc' = NoExc
    /\ sb_out' = NoOut
    /\ UNCHANGED sb_buffer
    /\ UNCHANGED wvars

\* buffer = io.StringIO()
ExecBuffer ==
    /\ sb_pc = "exec_buffer"
    /\ sb_buffer' = ""
    /\ sb_pc' = "exec_statements"
    /\ UNCHANGED << sb_arg, sb_result, sb_exc, sb_out >>
    /\ UNCHANGED wvars

\* exec(statements) under the two redirections: what the statements write
\* goes to the buffer, and they end or raise.
ExecStatements ==
    /\ sb_pc = "exec_statements"
    /\ LET r == PyExec(sb_arg.text)
       IN  /\ sb_buffer' = sb_buffer \o r.written
           /\ sb_exc' = r.exc
           /\ sb_pc' = IF r.exc = NoExc THEN "exec_getvalue" ELSE "except"
    /\ UNCHANGED << sb_arg, sb_result, sb_out >>
    /\ UNCHANGED wvars

\* return buffer.getvalue()
ExecGetValue ==
    /\ sb_pc = "exec_getvalue"
    /\ sb_out' = SbOk(sb_buffer)
    /\ sb_pc' = "returned"
    /\ UNCHANGED << sb_arg, sb_result, sb_buffer, sb_exc >>
    /\ UNCHANGED wvars

\* except Exception as e: raise handle_exception(e)
SandboxExcept ==
    /\ sb_pc = "except"
    /\ sb_out' = HandleException(sb_exc)
    /\ sb_pc' = "raised"
    /\ UNCHANGED << sb_arg, sb_result, sb_buffer, sb_exc >>
    /\ UNCHANGED wvars


Next ==
    \/ \E l \in Locations, u \in Units, e \in Envs : Call(l, u, e)
    \/ GetEnvironment
    \/ ParseUnit
    \/ BuildUrl
    \/ BuildRequest
    \/ Handle
    \/ \E c \in ErrorCodes : HandleFails(c)
    \/ Subscribe
    \/ Poll
    \/ \E r \in Outcomes : Get(r)
    \/ CheckNone
    \/ CheckOuter
    \/ CheckInner
    \/ CheckStatus
    \/ Consume
    \/ \E b \in StreamContents : Stream(b)
    \/ \E n \in 1..Len(stream_bytes) : ReadChunk(n)
    \/ ReadEmpty
    \/ ReadError
    \/ StreamExcept
    \/ JoinChunks
    \/ ParseBody
    \/ MapPayload
    \/ GetWeatherExcept
    \/ Dumps
    \/ CheckWeatherExcept
    \/ \E x \in Expressions : EvalCall(x)
    \/ EvalExpression
    \/ EvalDumps
    \/ \E s \in Statements : ExecCall(s)
    \/ ExecBuffer
    \/ ExecStatements
    \/ ExecGetValue
    \/ SandboxExcept

Spec == Init /\ [][Next]_vars

\* The statements of the guest that call nothing of the host: once reached,
\* each one runs.
GuestStep ==
    \/ GetEnvironment
    \/ ParseUnit
    \/ BuildUrl
    \/ BuildRequest
    \/ CheckNone
    \/ CheckOuter
    \/ CheckInner
    \/ CheckStatus
    \/ StreamExcept
    \/ JoinChunks
    \/ ParseBody
    \/ MapPayload
    \/ GetWeatherExcept
    \/ Dumps
    \/ CheckWeatherExcept

\* The host calls that do not wait: each returns or raises.
HostReturn ==
    \/ Handle
    \/ \E c \in ErrorCodes : HandleFails(c)
    \/ Subscribe
    \/ \E r \in Outcomes : Get(r)
    \/ Consume
    \/ \E b \in StreamContents : Stream(b)

\* The end of the body stream: a read of no bytes, or a read that raises.
StreamEnds == ReadEmpty \/ ReadError

\* The runs in which the guest keeps running, the host answers its calls,
\* the transport eventually signals readiness (poll returns) and the body
\* stream eventually ends. No caller is bound to call again.
FairSpec ==
    /\ Spec
    /\ WF_vars(GuestStep)
    /\ WF_vars(HostReturn)
    /\ WF_vars(Poll)
    /\ WF_vars(StreamEnds)

----------------------------------------------------------------------------
(* Vocabulary of the properties.                                           *)

RequiredKeys ==
    { "location", "temperature", "feels_like_temperature", "unit",
      "weather_conditions" }

OptionalKeys == { "wind_speed", "wind_degrees", "humidity" }

IsErrorShape(o) == DOMAIN o = { "error" }

IsSuccessShape(o) ==
    /\ "error" \notin DOMAIN o
    /\ RequiredKeys \subseteq DOMAIN o
    /\ DOMAIN o \subseteq RequiredKeys \cup OptionalKeys

\* The positions at which an exception is being handled.
HandlerSites == { "mhr_stream_except", "gw_except", "cw_except" }

\* The positions after a failed fetch.
FailedSites == { "gw_except", "cw_except", "returned" }

\* The bytes the body stream has handed out so far.
Sent == SubSeq(stream_bytes, 1, stream_pos)

\* The error text the caller sees for a message raised in make_http_request.
Wrapped(m) == "Failed to fetch weather: Failed to fetch weather: " \o m

HasKeyEntry(e) == \E i \in DOMAIN e : e[i][1] = API_KEY_NAME

\* The failure with message m, raised in make_http_request, and nothing else,
\* is what this invocation ends in.
FailsWith(m) ==
    /\ pc \in FailedSites
    /\ pc = "gw_except" => exc = Exc("Exception", m)
    /\ pc = "cw_except" => exc = Exc("Exception", "Failed to fetch weather: " \o m)
    /\ pc = "returned" => out = [error |-> Wrapped(m)]

----------------------------------------------------------------------------
(* C1..C10.                                                                *)

\* C1: check_weather never raises to its caller: no exception leaves it, an
\* exception in flight is always inside a try block of the pipeline, and what
\* it returns is either the error object (the key "error" alone) or a success
\* object without an "error" key; a success object is returned only when no
\* stage failed (credential present, 2xx response, body parsed and mapped).
C1_NeverRaises ==
    /\ pc # "raised"
    /\ exc # NoExc => pc \in HandlerSites
    /\ pc = "returned" =>
         /\ IsErrorShape(out) \/ IsSuccessShape(out)
         /\ IsSuccessShape(out) =>
              /\ ~Falsy(api_key)
              /\ result.outer = "Ok" /\ result.inner = "Ok"
              /\ StatusOk(result.status)
              /\ body # None
              /\ JsonLoads(The(body)).ok
              /\ MapWeather(JsonLoads(The(body)).value, unit_enum).ok

\* A call that ended in the error object after the transport layer failed.
C1_Witness ==
    /\ pc = "returned"
    /\ result.outer = "Err"
    /\ IsErrorShape(out)

\* C2: with no OPENWEATHER_API_KEY entry in the environment, check_weather
\* returns exactly the configuration error and the call takes no network
\* step: no request is built or submitted, nothing is polled, no body read.
C2_NoKeyNoNetwork ==
    (pc # "idle" /\ ~HasKeyEntry(env)) =>
        /\ pc \in { "cw_env", "returned" }
        /\ pc = "returned" => out = ConfigError
        /\ ops = NoOps
        /\ request = NoRequest
        /\ request_url = NoUrl
        /\ held = {}

\* A call returned under an environment that has entries, none of them the key.
C2_Witness ==
    /\ pc = "returned"
    /\ env = << << "PATH", BinChars >> >>
    /\ out = ConfigError

\* C3: when a blocking read raises a stream error after at least one chunk
\* was read, the reader returns the concatenation of the chunks read so far
\* and the pipeline goes on to parse and map that body; when it raises before
\* any chunk was read, the request fails with "Failed to read response body:
\* ..." and no body is returned.
C3_StreamErrorTieBreak ==
    stream_end = "error" =>
        /\ chunks # << >> =>
             /\ pc \in { "mhr_stream_except", "mhr_join", "gw_parse", "gw_map",
                         "cw_dumps" } \cup FailedSites
             /\ pc \notin { "mhr_stream_except", "mhr_join" } =>
                  /\ body = Some(Join(chunks))
                  /\ body = Some(Sent)
             /\ pc = "gw_except" => exc = JsonLoads(Sent).exc
                                    \/ exc = MapWeather(weather_data, unit_enum).exc
             /\ pc = "returned" =>
                  out # [error |-> Wrapped("Failed to read response body: "
                                           \o "StreamError_Closed()")]
        /\ chunks = << >> =>
             /\ body = None
             /\ pc = "mhr_stream_except"
                \/ FailsWith("Failed to read response body: StreamError_Closed()")

\* The stream raised after two chunks, and the body made of them was parsed
\* and mapped.
C3_Witness ==
    /\ stream_end = "error"
    /\ Len(chunks) = 2
    /\ pc = "cw_dumps"

\* C4: on a clean stream (non-empty chunks, then a zero-length read) the body
\* returned is the concatenation of the chunks in arrival order, which is
\* exactly what the stream handed out; every chunk kept is non-empty, and the
\* first zero-length read ends the loop (one read per chunk, and one more).
C4_CleanStreamBody ==
    stream_end = "eof" =>
        /\ pc # "mhr_read"
        /\ Join(chunks) = Sent
        /\ \A i \in DOMAIN chunks : chunks[i] # << >>
        /\ ops.read = Len(chunks) + 1
        /\ pc # "mhr_join" => body = Some(Sent)

\* A whole payload arrived in two chunks and the stream ended cleanly.
C4_Witness ==
    /\ stream_end = "eof"
    /\ Len(chunks) = 2
    /\ stream_pos = Len(stream_bytes)
    /\ body = Some(stream_bytes)

\* The failure message the unwrapper owes to each nested outcome.
UnwrapMessage(r) ==
    CASE r.outer = "None" -> "No response received"
      [] r.outer = "Err" -> "Failed to get response: " \o r.code
      [] r.outer = "Ok" /\ r.inner = "Err" ->
            "Request failed with error code: " \o r.code
      [] OTHER -> ""

\* C5: once response.get() has returned, a missing outcome fails with "No
\* response received", an outer error with "Failed to get response: ...", an
\* inner error with "Request failed with error code: <code>", and only an
\* Ok(Ok(response)) gets its response extracted (its status read); the checks
\* run in this order, each one only after the earlier ones have passed.
C5_UnwrapClassification ==
    /\ pc = "mhr_outer" => result.outer # "None"
    /\ pc = "mhr_inner" => result.outer = "Ok"
    /\ pc = "mhr_status" => result.outer = "Ok" /\ result.inner = "Ok"
    /\ (result # NoResult /\ pc \notin { "mhr_none", "mhr_outer", "mhr_inner" }) =>
          IF result.outer = "Ok" /\ result.inner = "Ok"
          THEN pc = "mhr_status" \/ status = Some(result.status)
          ELSE /\ FailsWith(UnwrapMessage(result))
               /\ status = None

\* An inner (protocol) error was classified as such.
C5_Witness ==
    /\ pc = "gw_except"
    /\ result = Outcome("Ok", "Err", "ErrorCode_DnsTimeout()", 0)
    /\ exc.msg = "Request failed with error code: ErrorCode_DnsTimeout()"

\* C6: the status read from the response is the response's; the request goes
\* on past the status check iff 200 <= status < 300, and any other status
\* fails with "HTTP error: status code <status>", the same status.
C6_StatusValidation ==
    status # None =>
        LET s == The(status) IN
        /\ s = result.status
        /\ IF s >= 200 /\ s <= 299
           THEN /\ pc \notin { "mhr_status" }
                /\ pc = "gw_except" =>
                     exc.msg # "HTTP error: status code " \o ToString(s)
                /\ ops.consume = 1 \/ pc = "mhr_consume"
           ELSE /\ FailsWith("HTTP error: status code " \o ToString(s))
                /\ ops.consume = 0

\* Status 204 passed the check and the body is being read.
C6_Witness ==
    /\ status = Some(204)
    /\ pc = "mhr_read"

\* C7: the status is read only after the outer and the inner layer were found
\* successful, and the body is touched (consume, stream, blocking_read) only
\* after the status was found in [200, 300); after an earlier failure neither
\* the status nor the body is touched.
C7_StepOrdering ==
    /\ ops.status > 0 =>
          /\ ops.get = 1
          /\ result.outer = "Ok" /\ result.inner = "Ok"
    /\ (ops.consume > 0 \/ ops.stream > 0 \/ ops.read > 0) =>
          /\ ops.status = 1
          /\ status # None /\ StatusOk(The(status))
    /\ ops.stream > 0 => ops.consume > 0
    /\ ops.read > 0 => ops.stream > 0
    /\ (pc \in FailedSites /\ ops.status = 0) =>
          ops.consume = 0 /\ ops.stream = 0 /\ ops.read = 0 /\ body = None

\* The inner layer failed, and the call returned without a status read.
C7_Witness ==
    /\ pc = "returned"
    /\ result.outer = "Ok" /\ result.inner = "Err"
    /\ ops.status = 0 /\ ops.consume = 0

C9_SingleAttempt ==
    /\ ops.handle <= 1 /\ ops.subscribe <= 1 /\ ops.poll <= 1 /\ ops.get <= 1
    /\ ops.status <= 1 /\ ops.consume <= 1 /\ ops.stream <= 1
    /\ ops.subscribe <= ops.handle /\ ops.poll <= ops.subscribe
    /\ (ops.subscribe = 1 /\ pc \notin { "mhr_poll" }) => ops.poll = 1
    /\ stream_end # "open" => ops.read = Len(chunks) + 1
    /\ pc = "returned" =>
          /\ ops.poll = ops.subscribe
          /\ ops.get = ops.poll

\* A call that failed at the body read and returned after one attempt.
C9_Witness ==
    /\ pc = "returned"
    /\ stream_end = "error" /\ chunks = << >>
    /\ ops.handle = 1 /\ ops.poll = 1 /\ ops.stream = 1 /\ ops.read = 1

\* The text s ends with the text t.
EndsWith(s, t) ==
    Len(s) >= Len(t) /\ SubSeq(s, Len(s) - Len(t) + 1, Len(s)) = t

\* u is "imperial" in some mix of upper and lower case.
IsImperialIgnoringCase(u) ==
    /\ Len(u) = Len(ImperialChars)
    /\ \A i \in DOMAIN u : u[i] = ImperialChars[i] \/ u[i] = ImperialChars[i] - 32

\* C10: the effective unit is "imperial" iff the unit string, lower-cased, is
\* "imperial", and "metric" for every other string; it is the value of the
\* units query parameter of the request.
C10_UnitDefaulting ==
    /\ unit_enum # "" =>
          unit_enum = IF IsImperialIgnoringCase(unit) THEN "imperial" ELSE "metric"
    /\ pc \notin { "idle", "cw_env", "cw_unit" } /\ ~Falsy(api_key) => unit_enum # ""
    /\ request_url # NoUrl =>
          EndsWith(request_url,
                   UnitsChars \o (IF IsImperialIgnoringCase(unit)
                                  THEN ImperialChars ELSE MetricChars))
    /\ request # NoRequest =>
          EndsWith(request.path_with_query,
                   UnitsChars \o (IF IsImperialIgnoringCase(unit)
                                  THEN ImperialChars ELSE MetricChars))

\* "Imperial" was sent as units=imperial.
C10_Witness ==
    /\ unit = << 73, 109, 112, 101, 114, 105, 97, 108 >>
    /\ request # NoRequest
    /\ EndsWith(request.path_with_query, UnitsChars \o ImperialChars)

----------------------------------------------------------------------------
(* C11..C20.                                                               *)

\* The call returned a success object.
Succeeded == pc = "returned" /\ IsSuccessShape(out)

\* C11, as stated: in every successful result the unit field is the unit
\* string the caller requested, lower-cased.
C11_UnitIsLoweredRequest ==
    Succeeded => UnitChars(out.unit) = Lower(unit)

\* C11, amended: in every successful result the unit field is the effective
\* unit of the request ("imperial" when the requested string lower-cased is
\* "imperial", "metric" for any other string), whatever the payload holds,
\* a unit of its own included; the WeatherResponse carries the same value.
C11_UnitIsEffectiveUnit ==
    /\ Succeeded =>
          out.unit = IF Lower(unit) = ImperialChars THEN "imperial" ELSE "metric"
    /\ weather # None =>
          The(weather).unit = IF Lower(unit) = ImperialChars THEN "imperial"
                              ELSE "metric"

\* "Imperial" was requested, the payload says "standard", the result says
\* "imperial".
C11_Witness ==
    /\ Succeeded
    /\ unit = << 73, 109, 112, 101, 114, 105, 97, 108 >>
    /\ TypeOf(weather_data) = "object"
    /\ "unit" \in DOMAIN weather_data.object
    /\ weather_data.object.unit = JStr("standard")
    /\ out.unit = "imperial"

\* The JSON value d is an object whose section outer is an object that has
\* the key inner.
HasKeyIn(d, outer, inner) ==
    /\ TypeOf(d) = "object"
    /\ outer \in DOMAIN d.object
    /\ TypeOf(d.object[outer]) = "object"
    /\ inner \in DOMAIN d.object[outer].object

\* The payload was parsed, to a value that has main.temp and main.feels_like.
HasRequiredFields ==
    /\ HasKeyIn(weather_data, "main", "temp")
    /\ HasKeyIn(weather_data, "main", "feels_like")

\* The payload supplies the field: the key is there and its value is not
\* null.
Supplies(outer, inner) ==
    /\ HasKeyIn(weather_data, outer, inner)
    /\ TypeOf(weather_data.object[outer].object[inner]) # "null"

\* The output has the key exactly when the payload supplies the field, and
\* then with the payload's value.
PresentIffSupplied(key, outer, inner) ==
    /\ key \in DOMAIN out <=> Supplies(outer, inner)
    /\ key \in DOMAIN out => out[key] = weather_data.object[outer].object[inner]

\* What C12 promises of a returned call.
OptionalFieldsAsSupplied ==
    /\ IsSuccessShape(out)
    /\ PresentIffSupplied("wind_speed", "wind", "speed")
    /\ PresentIffSupplied("wind_degrees", "wind", "deg")
    /\ PresentIffSupplied("humidity", "main", "humidity")
    /\ "weather" \notin DOMAIN weather_data.object => out.weather_conditions = << >>

\* C12, as stated: a call whose payload has main.temp and main.feels_like
\* returns a success object in which wind_speed, wind_degrees and humidity
\* are present exactly when the payload supplies wind.speed, wind.deg and
\* main.humidity, a missing wind section or key being an omitted key and
\* neither an error nor a null; weather_conditions is the empty sequence when
\* the payload has no weather key.
C12_OptionalFieldPresence ==
    pc = "returned" /\ HasRequiredFields => OptionalFieldsAsSupplied

\* The wind section of the payload, when it has one, is an object.
WindIsObject ==
    "wind" \in DOMAIN weather_data.object => TypeOf(weather_data.object.wind) = "object"

\* The weather section of the payload, when it has one, is a list of objects.
WeatherIsListOfObjects ==
    "weather" \in DOMAIN weather_data.object =>
        /\ TypeOf(weather_data.object.weather) = "array"
        /\ \A i \in DOMAIN weather_data.object.weather.array :
              TypeOf(weather_data.object.weather.array[i]) = "object"

\* C12, amended: a call whose payload has main.temp and main.feels_like, a
\* wind section that is an object when there is one and a weather section
\* that is a list of objects when there is one, returns a success object in
\* which wind_speed, wind_degrees and humidity are present exactly when the
\* payload has wind.speed, wind.deg and main.humidity with a value that is
\* not null, each with the payload's value (0 included); a missing wind
\* section, a missing key and a null are an omitted key, neither an error nor
\* a null; weather_conditions is the empty sequence when the payload has no
\* weather key.  A wind section that is there and is no object, null
\* included, ends the call in the error object.
C12_OptionalFieldsOfWellFormed ==
    /\ pc = "returned" /\ HasRequiredFields /\ WindIsObject
          /\ WeatherIsListOfObjects => OptionalFieldsAsSupplied
    /\ pc = "returned" /\ HasRequiredFields /\ ~WindIsObject =>
          IsErrorShape(out)

\* A payload with humidity 0, an empty wind section and no weather key gave
\* humidity 0, no wind key and no condition; or one with null for the
\* humidity and the wind speed gave the wind degrees alone.
C12_Witness ==
    /\ pc = "returned"
    /\ HasRequiredFields
    /\ "humidity" \in DOMAIN weather_data.object.main.object
    /\ \/ /\ weather_data.object.main.object.humidity = JNum(0)
          /\ "wind" \in DOMAIN weather_data.object
          /\ weather_data.object.wind = JObj(<< >>)
          /\ DOMAIN out = RequiredKeys \cup { "humidity" }
          /\ out.humidity = JNum(0)
          /\ out.weather_conditions = << >>
       \/ /\ weather_data.object.main.object.humidity = JNull
          /\ DOMAIN out = RequiredKeys \cup { "wind_degrees" }
          /\ out.wind_degrees = JNum(180)

\* The names of the required fields, quoted as KeyError quotes them.
RequiredNames == { "'main'", "'temp'", "'feels_like'" }

\* The required field the mapping of the JSON object d reaches first and
\* does not find, quoted as KeyError quotes it.
FirstMissing(d) ==
    IF "main" \notin DOMAIN d.object THEN "'main'"
    ELSE IF "temp" \notin DOMAIN d.object.main.object THEN "'temp'"
    ELSE "'feels_like'"

\* The payload was parsed, to a value without main.temp or without
\* main.feels_like.
LacksRequiredField == TypeOf(weather_data) # "unset" /\ ~HasRequiredFields

\* C13, as stated: when the payload was read and parsed and lacks the main
\* section, main.temp or main.feels_like, no WeatherResponse is built, the
\* fetch fails with the missing-field error naming a required field, and
\* check_weather returns the error object carrying that message.
C13_RequiredFieldFailure ==
    LacksRequiredField =>
       /\ weather = None
       /\ pc \notin { "cw_dumps", "raised" }
       /\ pc = "cw_except" =>
             \E f \in RequiredNames :
                exc = Exc("Exception",
                          "Error parsing weather data: missing field " \o f)
       /\ pc = "returned" =>
             \E f \in RequiredNames :
                out = [error |-> "Failed to fetch weather: Error parsing weather data: missing field "
                                    \o f]

\* The payload is a JSON object whose main section, when it has one, is an
\* object.
MainIsObject ==
    /\ TypeOf(weather_data) = "object"
    /\ "main" \in DOMAIN weather_data.object => TypeOf(weather_data.object.main) = "object"

\* C13, amended: when the payload was read and parsed and lacks the main
\* section, main.temp or main.feels_like, no WeatherResponse is built and
\* check_weather returns the error object, never a success object.  When the
\* payload is a JSON object whose main section, if there is one, is an object
\* and whose weather section, if there is one, is a list of objects, the
\* failure handed up by get_weather is the missing-field error naming the
\* first field not found, and the error object carries that message.  A
\* payload that is no object, or whose main section is no object, ends in an
\* error that names no field.
C13_FieldFailureOfObjects ==
    /\ LacksRequiredField =>
          /\ weather = None
          /\ pc \notin { "cw_dumps", "raised" }
          /\ pc = "returned" => IsErrorShape(out)
    /\ LacksRequiredField /\ MainIsObject /\ WeatherIsListOfObjects =>
          /\ pc = "cw_except" =>
                exc = Exc("Exception",
                          "Error parsing weather data: missing field "
                              \o FirstMissing(weather_data))
          /\ pc = "returned" =>
                out = [error |-> "Failed to fetch weather: Error parsing weather data: missing field "
                                    \o FirstMissing(weather_data)]
    /\ LacksRequiredField /\ ~MainIsObject /\ pc = "returned" =>
          \A f \in RequiredNames :
             out # [error |-> "Failed to fetch weather: Error parsing weather data: missing field "
                                 \o f]

\* A payload without main.temp ended in the error naming 'temp'.
C13_Witness ==
    /\ pc = "returned"
    /\ LacksRequiredField
    /\ MainIsObject
    /\ "main" \in DOMAIN weather_data.object
    /\ weather_data.object.main = JObj([feels_like |-> JNum(20)])
    /\ "weather" \notin DOMAIN weather_data.object
    /\ out = [error |-> "Failed to fetch weather: Error parsing weather data: missing field 'temp'"]

\* The phrases by which the pipeline names where a failure came from:
\* lines 91, 96 and 103 (transport), 110 (status), 130 (body read) and 173
\* (missing field). No line has one for a failure to parse.
CategoryPhrases ==
    { "No response received", "Failed to get response: ",
      "Request failed with error code: ", "HTTP error: status code ",
      "Failed to read response body: ",
      "Error parsing weather data: missing field " }

\* What follows a category phrase: nothing, an error code, a status, the
\* stream's error, a field name.
CategoryDetails ==
    { "", "None", "StreamError_Closed()", "'main'", "'temp'", "'feels_like'" }
    \cup ErrorCodes \cup { ToString(s) : s \in Statuses }

\* The wrapping of check_weather, alone or over that of get_weather.
FetchPrefixes ==
    { "Failed to fetch weather: ",
      "Failed to fetch weather: Failed to fetch weather: " }

\* C14: every fetch failure reaches the caller as a message that names its
\* origin category ahead of the detail, and the configuration error is
\* returned for a missing credential only, never for a fetch failure.
C14_CategoryPrefixed ==
    pc = "returned" /\ IsErrorShape(out) =>
       /\ out = ConfigError <=> Falsy(api_key)
       /\ out # ConfigError =>
             \E g \in FetchPrefixes, p \in CategoryPhrases, d \in CategoryDetails :
                out.error = g \o p \o d

\* C15: the wait on the pollable has no deadline. While check_weather waits
\* nothing has failed and nothing is returned; the only step out of the wait
\* is the return of poll once the transport is ready, which goes on to
\* response.get() without an exception, so a transport that never signals
\* leaves the call waiting for ever; and a call that returned without having
\* seen poll return ended in the configuration error or in the refusal of
\* its submit, never in a timeout.
C15_NoEnforcedDeadline ==
    /\ [](pc = "mhr_poll" => exc = NoExc /\ out = NoOut /\ ops.poll = 0)
    /\ [][pc = "mhr_poll" =>
             /\ pc' = "mhr_get"
             /\ exc' = NoExc
             /\ out' = NoOut
             /\ ops'.poll = 1]_vars
    /\ [](pc = "returned" /\ ops.poll = 0 =>
             \/ out = ConfigError
             \/ \E c \in ErrorCodes : out = [error |-> Wrapped(c)])

\* The transport signalled, poll returned, and the call went on to
\* response.get() with nothing raised.
C15_Witness ==
    /\ pc = "mhr_get"
    /\ ops.subscribe = 1 /\ ops.poll = 1 /\ ops.get = 0
    /\ exc = NoExc /\ out = NoOut

\* The transport of this invocation delivered a body to get_weather: the
\* submit was accepted, the outcome was a 2xx response, and the stream ended
\* cleanly or broke after some bytes.
Delivered ==
    /\ ops.subscribe = 1
    /\ result.outer = "Ok" /\ result.inner = "Ok" /\ StatusOk(result.status)
    /\ stream_end = "eof" \/ (stream_end = "error" /\ Sent # << >>)

\* What check_weather owes to the unit u, the environment e and a delivered
\* body b: the success object, or no object.
ObjectOf(u, b) ==
    LET j == JsonLoads(b)
        w == MapWeather(j.value, ParseUnitValue(u))
    IN  IF j.ok /\ w.ok THEN Some(ToDict(w.value)) ELSE None

\* The keys of the result owed to this invocation's arguments, environment
\* and transport.
FieldsOwed ==
    IF Falsy(LookupKey(env)) \/ ~Delivered \/ ObjectOf(unit, Sent) = None
    THEN { "error" }
    ELSE DOMAIN The(ObjectOf(unit, Sent))

\* C16: what a call does is decided by its own arguments, the environment it
\* reads and the transport's answers to it, whatever the calls before it
\* left behind. The credential in use is the one of the environment of this
\* call; a call that finds no credential where the call before had one goes
\* straight to the configuration error; the result has the keys owed to this
\* call's inputs and transport, and a success is the object owed to the unit
\* and the body of this call.
C16_InvocationIndependence ==
    /\ [](pc \notin { "idle", "cw_env" } => api_key = LookupKey(env))
    /\ [][pc = "cw_env" /\ ~Falsy(api_key) /\ Falsy(LookupKey(env)) =>
             pc' = "returned" /\ out' = ConfigError /\ ops' = NoOps]_vars
    /\ [](pc = "returned" =>
             /\ DOMAIN out = FieldsOwed
             /\ Succeeded => out = The(ObjectOf(unit, Sent)))

\* A call was made with a credential; the next one starts under an
\* environment without it.
C16_Witness ==
    /\ pc = "cw_env"
    /\ ~Falsy(api_key)
    /\ ~HasKeyEntry(env)
    /\ out = NoOut /\ ops = NoOps /\ held = {}

\* C18: within one fetch, once a blocking read has returned no bytes or has
\* raised, the loop is left and no further read is issued on that stream: the
\* count of reads stays what it was until the next invocation starts. Every
\* read before the last one gave a non-empty chunk, so a stream that ended
\* after n chunks, cleanly or by an error, has seen exactly n + 1 reads.
C18_NoReadPastEnd ==
    /\ [](stream_end # "open" =>
             /\ pc # "mhr_read"
             /\ ops.read = Len(chunks) + 1
             /\ \A i \in DOMAIN chunks : chunks[i] # << >>)
    /\ [](stream_end = "open" => ops.read = Len(chunks))
    /\ [][stream_end # "open" => ops'.read = ops.read \/ ops' = NoOps]_vars

\* A clean stream of two chunks was read with three reads, the call returned.
C18_Witness ==
    /\ pc = "returned"
    /\ stream_end = "eof"
    /\ Len(chunks) = 2
    /\ ops.read = 3

\* The value of the entry named OPENWEATHER_API_KEY that comes before every
\* other entry of that name in e.
FirstKeyValue(e) ==
    LET named == { i \in DOMAIN e : e[i][1] = API_KEY_NAME }
    IN  e[CHOOSE i \in named : \A j \in named : i <= j][2]

\* The environment of this invocation has no usable credential: its first
\* entry of that name has the empty string for value.
EmptyCredential == HasKeyEntry(env) /\ FirstKeyValue(env) = << >>

\* C20: past the lookup, the credential of the call is the value of the
\* first OPENWEATHER_API_KEY entry, later entries of that name notwithstanding,
\* and it is the appid of the URL, which the request submitted carries less
\* every occurrence of the service's origin; when that value is the empty
\* string the
\* call ends as with no entry at all, in the configuration error with no
\* request built and no transport call made; so any transport call was made
\* under a first entry with a non-empty value.
C20_CredentialLookup ==
    /\ pc \notin { "idle", "cw_env" } /\ HasKeyEntry(env) =>
          api_key = Key(FirstKeyValue(env))
    /\ request_url # NoUrl =>
          request_url = OriginChars \o PathChars \o Quote(location)
                           \o AppidChars \o FirstKeyValue(env)
                           \o UnitsChars \o UnitChars(unit_enum)
    /\ pc \notin { "idle", "cw_env" } /\ EmptyCredential =>
          /\ pc = "returned" /\ out = ConfigError
          /\ request_url = NoUrl /\ request = NoRequest
          /\ ops = NoOps /\ held = {}
    /\ ops # NoOps => HasKeyEntry(env) /\ FirstKeyValue(env) # << >>
    /\ request # NoRequest =>
          request.path_with_query =
              PathChars \o Quote(location) \o AppidChars
                  \o Replace(FirstKeyValue(env), OriginChars, << >>)
                  \o UnitsChars \o UnitChars(unit_enum)

\* An empty first entry followed by a usable one: the call returned the
\* configuration error without a transport call.
C20_Witness ==
    /\ pc = "returned"
    /\ env = << << API_KEY_NAME, << >> >>, << API_KEY_NAME, K2 >> >>
    /\ out = ConfigError
    /\ ops = NoOps

\* C19: in the runs where the transport eventually signals readiness and the
\* body stream eventually ends, every call of check_weather eventually
\* returns, with the error object or a success object; and the read loop is
\* left by a read of no bytes or by a read that raises and in no other way, a
\* read that gives a chunk being followed by another read, so that the call
\* lasts as long as the stream keeps giving chunks.
C19_TerminationUnderFairness ==
    /\ pc = "cw_env" ~> (pc = "returned" /\ (IsErrorShape(out) \/ IsSuccessShape(out)))
    /\ [][pc = "mhr_read" =>
             \/ pc' = "mhr_read" /\ Len(chunks') = Len(chunks) + 1
                                 /\ stream_end' = "open"
             \/ pc' = "mhr_join" /\ stream_end' = "eof" /\ chunks' = chunks
             \/ pc' = "mhr_stream_except" /\ stream_end' = "error"
                                          /\ chunks' = chunks]_vars

\* A call that read two chunks before the stream ended has returned.
C19_Witness ==
    /\ pc = "returned"
    /\ Len(chunks) = 2
    /\ stream_end \in { "eof", "error" }
    /\ ops.poll = 1
    /\ IsSuccessShape(out)

\* The exception the sandbox call in hand meets, NoExc if it meets none: the
\* one of eval's expression or of the serialization of its value, the one of
\* exec's statements.
ExceptionMet ==
    IF sb_arg.op = "eval"
    THEN IF PyEval(sb_arg.text).ok
         THEN JsonDumps(PyEval(sb_arg.text).value).exc
         ELSE PyEval(sb_arg.text).exc
    ELSE PyExec(sb_arg.text).exc

\* What WitWorld.eval returns for the expressions that have a value json.dumps
\* can write, as run: the codes of the characters of the text.
EvalReturns ==
    << [expression |-> "2 + 2",
        text |-> << 52 >>],
       [expression |-> "[1, 2, 3]",
        text |-> << 91, 49, 44, 32, 50, 44, 32, 51, 93 >>],
       [expression |-> "[True, -1]",
        text |-> << 91, 116, 114, 117, 101, 44, 32, 45, 49, 93 >>],
       [expression |-> "'a'",
        text |-> << 34, 97, 34 >>],
       [expression |-> "None",
        text |-> << 110, 117, 108, 108 >>],
       [expression |-> "'a\"b'",
        text |-> << 34, 97, 92, 34, 98, 34 >>],
       [expression |-> "'a\\\\b'",
        text |-> << 34, 97, 92, 92, 98, 34 >>],
       [expression |-> "'\\n'",
        text |-> << 34, 92, 110, 34 >>],
       [expression |-> "'\\u00e9'",
        text |-> << 34, 92, 117, 48, 48, 101, 57, 34 >>],
       [expression |-> "'\\U0001f600'",
        text |-> << 34, 92, 117, 100, 56, 51, 100, 92, 117, 100, 101, 48, 48, 34 >>],
       [expression |-> "['\\t', 127]",
        text |-> << 91, 34, 92, 116, 34, 44, 32, 49, 50, 55, 93 >>] >>

\* The sandbox call is over.
SandboxDone == sb_pc \in { "returned", "raised" }

\* C17: a call of eval or exec that meets an exception raises Err, with the
\* message "<type name>: <message>" when the exception has a message and the
\* type name alone when it has none, and a call that meets none returns:
\* eval the JSON text of the expression's value, exec the text its statements
\* wrote to stdout and stderr in this call, nothing of an earlier call's.
C17_SandboxErrorConversion ==
    /\ SandboxDone => (sb_pc = "raised" <=> ExceptionMet # NoExc)
    /\ sb_pc = "raised" =>
          /\ ExceptionMet.msg # "" =>
                sb_out = Err(ExceptionMet.type \o ": " \o ExceptionMet.msg)
          /\ ExceptionMet.msg = "" => sb_out = Err(ExceptionMet.type)
    /\ sb_pc = "returned" /\ sb_arg.op = "eval" =>
          /\ sb_out = SbOk(JsonText(PyEval(sb_arg.text).value))
          /\ \E i \in DOMAIN EvalReturns :
                /\ EvalReturns[i].expression = sb_arg.text
                /\ sb_out = SbOk(EvalReturns[i].text)
    /\ sb_pc = "returned" /\ sb_arg.op = "exec" =>
          sb_out = SbOk(PyExec(sb_arg.text).written)

\* exec("assert False") raised Err("AssertionError"), the buffer of the call
\* empty.
C17_Witness ==
    /\ sb_pc = "raised"
    /\ sb_arg = [op |-> "exec", text |-> "assert False"]
    /\ sb_buffer = ""
    /\ sb_out = Err("AssertionError")

====
